---- MODULE Spec2Model ----
(***************************************************************************)
(* Model of the Day 1 (calorie grouping) and Day 2 (rock paper scissors)   *)
(* solutions.  Strings are sequences of one-character strings, so that     *)
(* strip, split, int() and the label format are computed, not assumed.     *)
(***************************************************************************)
EXTENDS Integers, Sequences, FiniteSets, TLC

VARIABLES
    pc,                 \* position of the client program
    file_lines,         \* Day 2: the lines of the input file (no line ends)
    split_string,       \* Day 2: the delimiter handed to Game.from_file
    challenge_part,     \* Day 2: ChallengePart handed to Game.from_file
    game,               \* Day 2: what Game.from_file produced
    call,               \* Day 2: the last method call on a Round or the Game
    file_contents,      \* Day 1: the text of the input file
    line_delimiter,     \* Day 1: the delimiter handed to parse_input_file
    source_groups,      \* Day 1: the groups a well-formed text was written from
    elf_to_snacks_dict, \* Day 1: what parse_input_file produced
    highest             \* Day 1: what identify_elf_with_highest_calories produced

vars == <<pc, file_lines, split_string, challenge_part, game, call,
          file_contents, line_delimiter, source_groups, elf_to_snacks_dict,
          highest>>

day2vars == <<file_lines, split_string, challenge_part, game, call>>
day1vars == <<file_contents, line_delimiter, source_groups, elf_to_snacks_dict,
              highest>>

(***************************************************************************)
(* Bounds of the model.                                                    *)
(***************************************************************************)
MaxLines == 3
MaxTextLen == 4
MaxGroups == 3
MaxSnacks == 2
MaxElves == 11

(***************************************************************************)
(* Python str methods on sequences of characters.                          *)
(***************************************************************************)
NL == "\n"

Whitespace == {" ", "\n", "\t", "\r"}

RECURSIVE LStrip(_)
LStrip(s) ==
    IF s # <<>> /\ Head(s) \in Whitespace THEN LStrip(Tail(s)) ELSE s

RECURSIVE RStrip(_)
RStrip(s) ==
    IF s # <<>> /\ s[Len(s)] \in Whitespace
    THEN RStrip(SubSeq(s, 1, Len(s) - 1))
    ELSE s

\* str.strip() with no argument
Strip(s) == RStrip(LStrip(s))

\* str.find(sep), 1-based, 0 when sep does not occur
Find(s, sep) ==
    LET hits == {k \in 1..(Len(s) - Len(sep) + 1) :
                    SubSeq(s, k, k + Len(sep) - 1) = sep}
    IN  IF hits = {} THEN 0
        ELSE CHOOSE k \in hits : \A j \in hits : k <= j

\* str.split(sep) with a non-empty sep
RECURSIVE Split(_, _)
Split(s, sep) ==
    LET k == Find(s, sep)
    IN  IF k = 0 THEN <<s>>
        ELSE <<SubSeq(s, 1, k - 1)>>
                 \o Split(SubSeq(s, k + Len(sep), Len(s)), sep)

(***************************************************************************)
(* Day 2: the enumerations and tables.                                     *)
(***************************************************************************)
PART_1 == 1
PART_2 == 2

\* list(OpponentChoice), in definition order
OpponentChoice ==
    << [name |-> "ROCK", value |-> "A"],
       [name |-> "PAPER", value |-> "B"],
       [name |-> "SCISSORS", value |-> "C"] >>

\* list(PlayerChoice), in definition order
PlayerChoice ==
    << [name |-> "ROCK", value |-> "X"],
       [name |-> "PAPER", value |-> "Y"],
       [name |-> "SCISSORS", value |-> "Z"] >>

\* list(PlayerStrategy), in definition order
PlayerStrategy ==
    << [name |-> "LOSE", value |-> "X"],
       [name |-> "DRAW", value |-> "Y"],
       [name |-> "WIN", value |-> "Z"] >>

\* RoundOutcome, an IntEnum: name and value
LOSS == [name |-> "LOSS", value |-> 0]
DRAW == [name |-> "DRAW", value |-> 3]
WIN == [name |-> "WIN", value |-> 6]

RoundOutcome == {LOSS, DRAW, WIN}

Member(enum, name) == CHOOSE m \in {enum[i] : i \in DOMAIN enum} : m.name = name

\* the table with the WIN and LOSE answers to ROCK exchanged
StrategyDictSwapped ==
    { << <<Member(OpponentChoice, "ROCK"), Member(PlayerStrategy, "DRAW")>>,
         Member(PlayerChoice, "ROCK") >>,
      << <<Member(OpponentChoice, "PAPER"), Member(PlayerStrategy, "DRAW")>>,
         Member(PlayerChoice, "PAPER") >>,
      << <<Member(OpponentChoice, "SCISSORS"), Member(PlayerStrategy, "DRAW")>>,
         Member(PlayerChoice, "SCISSORS") >>,
      << <<Member(OpponentChoice, "ROCK"), Member(PlayerStrategy, "WIN")>>,
         Member(PlayerChoice, "SCISSORS") >>,
      << <<Member(OpponentChoice, "PAPER"), Member(PlayerStrategy, "WIN")>>,
         Member(PlayerChoice, "SCISSORS") >>,
      << <<Member(OpponentChoice, "SCISSORS"), Member(PlayerStrategy, "WIN")>>,
         Member(PlayerChoice, "ROCK") >>,
      << <<Member(OpponentChoice, "ROCK"), Member(PlayerStrategy, "LOSE")>>,
         Member(PlayerChoice, "PAPER") >>,
      << <<Member(OpponentChoice, "PAPER"), Member(PlayerStrategy, "LOSE")>>,
         Member(PlayerChoice, "ROCK") >>,
      << <<Member(OpponentChoice, "SCISSORS"), Member(PlayerStrategy, "LOSE")>>,
         Member(PlayerChoice, "PAPER") >> }

\* the dictionary as a set of <<key, value>> items, keys being pairs of
\* members
OPPONENT_MOVE_STRATEGY_TO_PLAYER_MOVE_DICT ==
    { << <<Member(OpponentChoice, "ROCK"), Member(PlayerStrategy, "DRAW")>>,
         Member(PlayerChoice, "ROCK") >>,
      << <<Member(OpponentChoice, "PAPER"), Member(PlayerStrategy, "DRAW")>>,
         Member(PlayerChoice, "PAPER") >>,
      << <<Member(OpponentChoice, "SCISSORS"), Member(PlayerStrategy, "DRAW")>>,
         Member(PlayerChoice, "SCISSORS") >>,
      << <<Member(OpponentChoice, "ROCK"), Member(PlayerStrategy, "WIN")>>,
         Member(PlayerChoice, "PAPER") >>,
      << <<Member(OpponentChoice, "PAPER"), Member(PlayerStrategy, "WIN")>>,
         Member(PlayerChoice, "SCISSORS") >>,
      << <<Member(OpponentChoice, "SCISSORS"), Member(PlayerStrategy, "WIN")>>,
         Member(PlayerChoice, "ROCK") >>,
      << <<Member(OpponentChoice, "ROCK"), Member(PlayerStrategy, "LOSE")>>,
         Member(PlayerChoice, "SCISSORS") >>,
      << <<Member(OpponentChoice, "PAPER"), Member(PlayerStrategy, "LOSE")>>,
         Member(PlayerChoice, "ROCK") >>,
      << <<Member(OpponentChoice, "SCISSORS"), Member(PlayerStrategy, "LOSE")>>,
         Member(PlayerChoice, "PAPER") >> }

\* the selection scores counted from zero
SelectionScoreZeroBased ==
    { <<Member(PlayerChoice, "ROCK"), 0>>,
      <<Member(PlayerChoice, "PAPER"), 1>>,
      <<Member(PlayerChoice, "SCISSORS"), 2>> }

\* the dictionary as a set of <<key, value>> items
PLAYER_SELECTION_TO_SCORE_DICT ==
    { <<Member(PlayerChoice, "ROCK"), 1>>,
      <<Member(PlayerChoice, "PAPER"), 2>>,
      <<Member(PlayerChoice, "SCISSORS"), 3>> }

\* dict[key]: the items under the key (none: KeyError)
Items(dict, key) == {item \in dict : item[1] = key}

HasKey(dict, key) == Items(dict, key) # {}

Lookup(dict, key) == (CHOOSE item \in dict : item[1] = key)[2]

\* list.index(token) over the members of a StrEnum, which compare equal to
\* the string that is their value; 1-based, 0 when absent (ValueError)
ListIndex(enum, token) ==
    LET hits == {i \in DOMAIN enum : <<enum[i].value>> = token}
    IN  IF hits = {} THEN 0
        ELSE CHOOSE i \in hits : \A j \in hits : i <= j

(***************************************************************************)
(* Day 2: Round.  A call either returns a value or raises.                 *)
(***************************************************************************)
NoMember == [name |-> "NONE", value |-> ""]

Round(opponent_choice, player_choice) ==
    [opponent_choice |-> opponent_choice, player_choice |-> player_choice]

NoRound == Round(NoMember, NoMember)

Return(value) == [error |-> "", value |-> value]

Raise(error, value) == [error |-> error, value |-> value]

\* Round.determine_player_choice
determine_player_choice(opponent_choice, player_strategy) ==
    LET key == <<opponent_choice, player_strategy>>
    IN  IF HasKey(OPPONENT_MOVE_STRATEGY_TO_PLAYER_MOVE_DICT, key)
        THEN Return(Lookup(OPPONENT_MOVE_STRATEGY_TO_PLAYER_MOVE_DICT, key))
        ELSE Raise("KeyError", NoMember)

\* from_string that looks the player's move up at the opponent's index
from_string_one_index(input_string, split) ==
    LET moves == Split(Strip(input_string), split)
        opponent_move_idx == ListIndex(OpponentChoice, moves[1])
        player_move_idx == ListIndex(PlayerChoice, moves[2])
    IN  IF opponent_move_idx = 0 THEN Raise("ValueError", NoRound)
        ELSE IF Len(moves) < 2 THEN Raise("IndexError", NoRound)
        ELSE IF player_move_idx = 0 THEN Raise("ValueError", NoRound)
        ELSE Return(Round(OpponentChoice[opponent_move_idx],
                          PlayerChoice[opponent_move_idx]))

\* Round.from_string
from_string(input_string, split) ==
    LET moves == Split(Strip(input_string), split)
        opponent_move_idx == ListIndex(OpponentChoice, moves[1])
        player_move_idx == ListIndex(PlayerChoice, moves[2])
    IN  IF opponent_move_idx = 0 THEN Raise("ValueError", NoRound)
        ELSE IF Len(moves) < 2 THEN Raise("IndexError", NoRound)
        ELSE IF player_move_idx = 0 THEN Raise("ValueError", NoRound)
        ELSE Return(Round(OpponentChoice[opponent_move_idx],
                          PlayerChoice[player_move_idx]))

\* Round.from_string_part_two
from_string_part_two(input_string, split) ==
    LET content == Split(Strip(input_string), split)
        opponent_move_idx == ListIndex(OpponentChoice, content[1])
        opponent_choice == OpponentChoice[opponent_move_idx]
        player_strategy_idx == ListIndex(PlayerStrategy, content[2])
        player_strategy == PlayerStrategy[player_strategy_idx]
        player_choice == determine_player_choice(opponent_choice,
                                                 player_strategy)
    IN  IF opponent_move_idx = 0 THEN Raise("ValueError", NoRound)
        ELSE IF Len(content) < 2 THEN Raise("IndexError", NoRound)
        ELSE IF player_strategy_idx = 0 THEN Raise("ValueError", NoRound)
        ELSE IF player_choice.error # "" THEN Raise(player_choice.error, NoRound)
        ELSE Return(Round(opponent_choice, player_choice.value))

\* determine_outcome with the opponent of the first winning pair mistaken
determine_outcome_rock_over_paper(self) ==
    IF self.player_choice.name = self.opponent_choice.name THEN DRAW
    ELSE LET player_wins ==
                 \/ /\ self.player_choice.value = Member(PlayerChoice, "ROCK").value
                    /\ self.opponent_choice.value
                           = Member(OpponentChoice, "PAPER").value
                 \/ /\ self.player_choice.value = Member(PlayerChoice, "PAPER").value
                    /\ self.opponent_choice.value
                           = Member(OpponentChoice, "ROCK").value
                 \/ /\ self.player_choice.value
                           = Member(PlayerChoice, "SCISSORS").value
                    /\ self.opponent_choice.value
                           = Member(OpponentChoice, "PAPER").value
         IN  IF player_wins THEN WIN ELSE LOSS

\* determine_outcome with the third winning pair written as the second
determine_outcome_repeated_pair(self) ==
    IF self.player_choice.name = self.opponent_choice.name THEN DRAW
    ELSE LET player_wins ==
                 \/ /\ self.player_choice.value = Member(PlayerChoice, "ROCK").value
                    /\ self.opponent_choice.value
                           = Member(OpponentChoice, "SCISSORS").value
                 \/ /\ self.player_choice.value = Member(PlayerChoice, "PAPER").value
                    /\ self.opponent_choice.value
                           = Member(OpponentChoice, "ROCK").value
                 \/ /\ self.player_choice.value
                           = Member(PlayerChoice, "SCISSORS").value
                    /\ self.opponent_choice.value
                           = Member(OpponentChoice, "ROCK").value
         IN  IF player_wins THEN WIN ELSE LOSS

\* Round.determine_outcome: the names are compared for the draw, the members
\* (strings) for the win
determine_outcome(self) ==
    IF self.player_choice.name = self.opponent_choice.name THEN DRAW
    ELSE LET player_wins ==
                 \/ /\ self.player_choice.value = Member(PlayerChoice, "ROCK").value
                    /\ self.opponent_choice.value
                           = Member(OpponentChoice, "SCISSORS").value
                 \/ /\ self.player_choice.value = Member(PlayerChoice, "PAPER").value
                    /\ self.opponent_choice.value
                           = Member(OpponentChoice, "ROCK").value
                 \/ /\ self.player_choice.value
                           = Member(PlayerChoice, "SCISSORS").value
                    /\ self.opponent_choice.value
                           = Member(OpponentChoice, "PAPER").value
         IN  IF player_wins THEN WIN ELSE LOSS

\* compute_score that leaves the selection score out
compute_score_outcome_only(self, selection_score_dict) ==
    LET outcome == determine_outcome(self)
    IN  IF HasKey(selection_score_dict, self.player_choice)
        THEN Return(outcome.value)
        ELSE Raise("KeyError", 0)

\* Round.compute_score
compute_score(self, selection_score_dict) ==
    LET outcome == determine_outcome(self)
    IN  IF HasKey(selection_score_dict, self.player_choice)
        THEN Return(outcome.value
                        + Lookup(selection_score_dict, self.player_choice))
        ELSE Raise("KeyError", 0)

(***************************************************************************)
(* Day 2: Game.                                                            *)
(***************************************************************************)
\* f.readlines(): every line with its line end
ReadLines(lines) == [i \in DOMAIN lines |-> lines[i] \o <<NL>>]

\* the list comprehension of Game.from_file: the rounds of all lines, or the
\* error of the first line that raises
RoundsOf(lines, split, part) ==
    LET parsed == [i \in DOMAIN lines |->
                      IF part = PART_1
                      THEN from_string(lines[i], split)
                      ELSE from_string_part_two(lines[i], split)]
        failed == {i \in DOMAIN lines : parsed[i].error # ""}
    IN  IF failed = {}
        THEN Return([i \in DOMAIN lines |-> parsed[i].value])
        ELSE Raise(parsed[CHOOSE i \in failed : \A j \in failed : i <= j].error,
                   <<>>)

\* Game.from_file: a Game (its rounds), or the error raised
from_file(lines, split, part) == RoundsOf(ReadLines(lines), split, part)

RECURSIVE Sum(_)
Sum(seq) == IF seq = <<>> THEN 0 ELSE Head(seq) + Sum(Tail(seq))

\* Game.compute_score that leaves the first round out
game_compute_score_skip_first(rounds, selection_score_dict) ==
    LET scores == [i \in DOMAIN rounds |->
                      compute_score(rounds[i], selection_score_dict)]
        failed == {i \in DOMAIN rounds : scores[i].error # ""}
    IN  IF failed = {}
        THEN Return(Sum([i \in 1..(Len(rounds) - 1) |-> scores[i + 1].value]))
        ELSE Raise("KeyError", 0)

\* Game.compute_score
game_compute_score(rounds, selection_score_dict) ==
    LET scores == [i \in DOMAIN rounds |->
                      compute_score(rounds[i], selection_score_dict)]
        failed == {i \in DOMAIN rounds : scores[i].error # ""}
    IN  IF failed = {}
        THEN Return(Sum([i \in DOMAIN rounds |-> scores[i].value]))
        ELSE Raise("KeyError", 0)

(***************************************************************************)
(* Day 2: the input files and the client program.                          *)
(***************************************************************************)
SeqsUpTo(S, n) == UNION {[1..k -> S] : k \in 0..n}

SplitStrings == {<<" ">>, <<",">>}

\* the nine lines "<opponent> <second token>"
WellFormedLines ==
    {<<o, " ", p>> : o \in {"A", "B", "C"}, p \in {"X", "Y", "Z"}}

\* an empty line, one token, a token outside its domain, three tokens, a
\* doubled delimiter, no delimiter, the other delimiter
OtherLines ==
    { <<>>, <<"A">>, <<"A", " ", "Q">>, <<"Q", " ", "X">>,
      <<"A", " ", "Y", " ", "Z">>, <<"A", " ", " ", "Y">>, <<"A", "Y">>,
      <<"B", ",", "Z">> }

Lines == WellFormedLines \cup OtherLines

NoCall == [op |-> "", idx |-> 0, ret |-> 0]

Day2Idle ==
    /\ file_lines = <<>>
    /\ split_string = <<>>
    /\ challenge_part = 0
    /\ game = Return(<<>>)
    /\ call = NoCall

Day1Idle ==
    /\ file_contents = <<>>
    /\ line_delimiter = <<>>
    /\ source_groups = <<>>
    /\ elf_to_snacks_dict = Return(<<>>)
    /\ highest = Return(<<>>)

InitDay2 ==
    /\ pc = "start"
    /\ file_lines \in SeqsUpTo(Lines, MaxLines)
    /\ split_string \in SplitStrings
    /\ challenge_part \in {PART_1, PART_2}
    /\ game = Return(<<>>)
    /\ call = NoCall
    /\ Day1Idle

\* the client calls Game.from_file
GameFromFile ==
    /\ pc = "start"
    /\ game' = from_file(file_lines, split_string, challenge_part)
    /\ pc' = IF game'.error = "" THEN "loaded" ELSE "raised"
    /\ UNCHANGED <<file_lines, split_string, challenge_part, call>>
    /\ UNCHANGED day1vars

\* the client calls determine_outcome on a round of the game
RoundDetermineOutcome ==
    /\ pc = "loaded"
    /\ \E i \in DOMAIN game.value :
           call' = [op |-> "determine_outcome", idx |-> i,
                    ret |-> determine_outcome(game.value[i])]
    /\ UNCHANGED <<pc, file_lines, split_string, challenge_part, game>>
    /\ UNCHANGED day1vars

\* the client calls compute_score on a round of the game
RoundComputeScore ==
    /\ pc = "loaded"
    /\ \E i \in DOMAIN game.value :
       \E selection_score_dict \in {PLAYER_SELECTION_TO_SCORE_DICT} :
           call' = [op |-> "compute_score", idx |-> i,
                    ret |-> compute_score(game.value[i],
                                          selection_score_dict).value]
    /\ UNCHANGED <<pc, file_lines, split_string, challenge_part, game>>
    /\ UNCHANGED day1vars

\* the round in which the two players have exchanged their shapes
SwappedRound(round) ==
    Round(Member(OpponentChoice, round.player_choice.name),
          Member(PlayerChoice, round.opponent_choice.name))

\* the client calls determine_outcome on a round of the game and on the
\* round with the roles swapped
RoundDetermineOutcomeSwapped ==
    /\ pc = "loaded"
    /\ \E i \in DOMAIN game.value :
           call' = [op |-> "determine_outcome_swapped", idx |-> i,
                    ret |-> <<determine_outcome(game.value[i]),
                              determine_outcome(SwappedRound(game.value[i]))>>]
    /\ UNCHANGED <<pc, file_lines, split_string, challenge_part, game>>
    /\ UNCHANGED day1vars

\* the client calls compute_score on the game
GameComputeScore ==
    /\ pc = "loaded"
    /\ \E selection_score_dict \in {PLAYER_SELECTION_TO_SCORE_DICT} :
           call' = [op |-> "game_compute_score", idx |-> 0,
                    ret |-> game_compute_score(game.value,
                                               selection_score_dict).value]
    /\ UNCHANGED <<pc, file_lines, split_string, challenge_part, game>>
    /\ UNCHANGED day1vars

NextDay2 ==
    \/ GameFromFile
    \/ RoundDetermineOutcome
    \/ RoundDetermineOutcomeSwapped
    \/ RoundComputeScore
    \/ GameComputeScore

SpecDay2 == InitDay2 /\ [][NextDay2]_vars

(***************************************************************************)
(* Day 1: str(int), int(str) and the label format.                         *)
(***************************************************************************)
MIN_PADDING_AMOUNT == 2

Digits == <<"0", "1", "2", "3", "4", "5", "6", "7", "8", "9">>

DigitChars == {Digits[i] : i \in DOMAIN Digits}

DigitValue(c) == (CHOOSE i \in DOMAIN Digits : Digits[i] = c) - 1

\* str(n) of an integer
RECURSIVE Str(_)
Str(n) ==
    IF n < 0 THEN <<"-">> \o Str(-n)
    ELSE IF n < 10 THEN <<Digits[n + 1]>>
    ELSE Str(n \div 10) \o <<Digits[(n % 10) + 1]>>

RECURSIVE DigitsToNat(_)
DigitsToNat(s) ==
    IF s = <<>> THEN 0
    ELSE DigitsToNat(SubSeq(s, 1, Len(s) - 1)) * 10 + DigitValue(s[Len(s)])

\* int(token): surrounding whitespace and one sign are accepted, the rest
\* must be a non-empty run of decimal digits; anything else is a ValueError
int(token) ==
    LET t == Strip(token)
        signed == t # <<>> /\ Head(t) \in {"+", "-"}
        body == IF signed THEN Tail(t) ELSE t
    IN  IF body = <<>> \/ \E i \in DOMAIN body : body[i] \notin DigitChars
        THEN Raise("ValueError", 0)
        ELSE IF signed /\ Head(t) = "-"
        THEN Return(-DigitsToNat(body))
        ELSE Return(DigitsToNat(body))

\* the format spec >0{padding_amount} applied to the decimal digits of idx:
\* zeros are put to the left up to the width, longer numbers are left whole
RECURSIVE PadLeft(_, _)
PadLeft(s, width) == IF Len(s) >= width THEN s ELSE PadLeft(<<"0">> \o s, width)

\* create_elf_name without the padding
create_elf_name_unpadded(idx, padding_amount) ==
    <<"e", "l", "f", "-">> \o Str(idx)

\* create_elf_name
create_elf_name(idx, padding_amount) ==
    <<"e", "l", "f", "-">> \o PadLeft(Str(idx), padding_amount)

(***************************************************************************)
(* Day 1: dictionaries keep their insertion order; a dictionary is the     *)
(* sequence of its <<key, value>> items.  A value is a list or None.       *)
(***************************************************************************)
None == [none |-> TRUE, list |-> <<>>]

List(list) == [none |-> FALSE, list |-> list]

Keys(dict) == {dict[i][1] : i \in DOMAIN dict}

\* dict[key] = value: a key already there keeps its place
DictSet(dict, key, value) ==
    IF key \in Keys(dict)
    THEN [i \in DOMAIN dict |->
             IF dict[i][1] = key THEN <<key, value>> ELSE dict[i]]
    ELSE Append(dict, <<key, value>>)

\* clean_string_per_elf that leaves the bad tokens out of the list
clean_string_per_elf_skipping(calorie_string, delimiter) ==
    LET tokens == Split(Strip(calorie_string), delimiter)
        good == SelectSeq(tokens, LAMBDA t : int(t).error = "")
    IN  Return(List([i \in DOMAIN good |-> int(good[i]).value]))

\* clean_string_per_elf that does not strip the string
clean_string_per_elf_unstripped(calorie_string, delimiter) ==
    LET tokens == Split(calorie_string, delimiter)
        values == [i \in DOMAIN tokens |-> int(tokens[i])]
    IN  IF \E i \in DOMAIN values : values[i].error # ""
        THEN Return(None)
        ELSE Return(List([i \in DOMAIN values |-> values[i].value]))

\* clean_string_per_elf: the ValueError of int() is caught, a message is
\* printed and the function falls off its end, which returns None
clean_string_per_elf(calorie_string, delimiter) ==
    LET tokens == Split(Strip(calorie_string), delimiter)
        values == [i \in DOMAIN tokens |-> int(tokens[i])]
    IN  IF \E i \in DOMAIN values : values[i].error # ""
        THEN Return(None)
        ELSE Return(List([i \in DOMAIN values |-> values[i].value]))

Max(a, b) == IF a >= b THEN a ELSE b

\* the dictionary comprehension of parse_input_file, items 1..n of the list
RECURSIVE NamedElves(_, _, _)
NamedElves(list, n, padding_amount) ==
    IF n = 0 THEN <<>>
    ELSE DictSet(NamedElves(list, n - 1, padding_amount),
                 create_elf_name(n, padding_amount), list[n])

\* parse_input_file with the padding taken from the digits alone
parse_input_file_narrow(contents, delimiter) ==
    LET strings == Split(contents, delimiter \o delimiter)
        cleaned == [i \in DOMAIN strings |->
                       clean_string_per_elf(strings[i], delimiter)]
        failed == {i \in DOMAIN cleaned : cleaned[i].error # ""}
        list_of_list_of_calories_per_elf ==
            [i \in DOMAIN cleaned |-> cleaned[i].value]
        num_elves == Len(list_of_list_of_calories_per_elf)
        padding_amount == Max(Len(Str(num_elves)), MIN_PADDING_AMOUNT)
    IN  IF failed # {} THEN Raise("ValueError", <<>>)
        ELSE Return(NamedElves(list_of_list_of_calories_per_elf, num_elves,
                               padding_amount))

\* parse_input_file, from the text of the file on
parse_input_file(contents, delimiter) ==
    LET strings == Split(contents, delimiter \o delimiter)
        cleaned == [i \in DOMAIN strings |->
                       clean_string_per_elf(strings[i], delimiter)]
        failed == {i \in DOMAIN cleaned : cleaned[i].error # ""}
        list_of_list_of_calories_per_elf ==
            [i \in DOMAIN cleaned |-> cleaned[i].value]
        num_elves == Len(list_of_list_of_calories_per_elf)
        padding_amount == Max(Len(Str(num_elves)) + 1, MIN_PADDING_AMOUNT)
    IN  IF failed # {} THEN Raise("ValueError", <<>>)
        ELSE Return(NamedElves(list_of_list_of_calories_per_elf, num_elves,
                               padding_amount))

\* max() that replaces its candidate on an equal key as well
RECURSIVE MaxIndexLast(_, _, _)
MaxIndexLast(keys, best, i) ==
    IF i > Len(keys) THEN best
    ELSE MaxIndexLast(keys, IF keys[i] >= keys[best] THEN i ELSE best, i + 1)

\* max(iterable, key=...): the candidate is replaced only by an item whose
\* key is greater; the index of the item returned, scanning from item i on
RECURSIVE MaxIndex(_, _, _)
MaxIndex(keys, best, i) ==
    IF i > Len(keys) THEN best
    ELSE MaxIndex(keys, IF keys[i] > keys[best] THEN i ELSE best, i + 1)

\* identify_elf_with_highest_calories that keeps the last of equal sums
identify_elf_with_highest_calories_last(dict) ==
    LET sums == [i \in DOMAIN dict |-> Sum(dict[i][2].list)]
        best == MaxIndexLast(sums, 1, 2)
    IN  IF dict = <<>> THEN Raise("ValueError", <<>>)
        ELSE IF \E i \in DOMAIN dict : dict[i][2].none
        THEN Raise("TypeError", <<>>)
        ELSE Return(<<dict[best][1], Sum(dict[best][2].list)>>)

\* identify_elf_with_highest_calories: max() of no items is a ValueError and
\* sum(None) a TypeError
identify_elf_with_highest_calories(dict) ==
    LET sums == [i \in DOMAIN dict |-> Sum(dict[i][2].list)]
        best == MaxIndex(sums, 1, 2)
    IN  IF dict = <<>> THEN Raise("ValueError", <<>>)
        ELSE IF \E i \in DOMAIN dict : dict[i][2].none
        THEN Raise("TypeError", <<>>)
        ELSE Return(<<dict[best][1], Sum(dict[best][2].list)>>)

(***************************************************************************)
(* Day 2: properties.                                                      *)
(***************************************************************************)
\* the round a call on a Round was made on, and the line it was parsed from
CalledRound == game.value[call.idx]

CalledLine == file_lines[call.idx]

ExampleFile == << <<"A", " ", "Y">>, <<"B", " ", "X">>, <<"C", " ", "Z">> >>

WinningPairs ==
    { <<"ROCK", "SCISSORS">>, <<"PAPER", "ROCK">>, <<"SCISSORS", "PAPER">> }

\* the outcome for the player, by the names of the two shapes
OutcomeByRule(player, opponent) ==
    IF player = opponent THEN "DRAW"
    ELSE IF <<player, opponent>> \in WinningPairs THEN "WIN"
    ELSE "LOSS"

\* C1: determine_outcome returns one of Loss, Draw, Win for each of the nine
\* (opponent move, player move) combinations: Draw for equal shapes, Win for
\* Rock over Scissors, Paper over Rock, Scissors over Paper, Loss otherwise.
C1_OutcomeOfEveryPair ==
    call.op = "determine_outcome" =>
        /\ call.ret \in RoundOutcome
        /\ call.ret.name = OutcomeByRule(CalledRound.player_choice.name,
                                         CalledRound.opponent_choice.name)

\* a win, a loss and a draw cannot be told apart in one state; the witness is
\* the win of Scissors over Paper
C1_Witness ==
    /\ call.op = "determine_outcome"
    /\ CalledRound.player_choice.name = "SCISSORS"
    /\ CalledRound.opponent_choice.name = "PAPER"
    /\ call.ret = WIN

DesiredOutcomeName(token) ==
    CASE token = <<"X">> -> "LOSS"
      [] token = <<"Y">> -> "DRAW"
      [] token = <<"Z">> -> "WIN"

AllWellFormed == \A i \in DOMAIN file_lines : file_lines[i] \in WellFormedLines

\* C2: in outcome mode every (opponent token, desired-outcome token) pair is
\* found in the table (a file of such lines loads), and the round produced
\* has the desired outcome: X gives Loss, Y gives Draw, Z gives Win.
C2_OutcomeModeRoundTrip ==
    /\ (/\ challenge_part = PART_2
        /\ split_string = <<" ">>
        /\ AllWellFormed
        /\ pc # "start") => pc = "loaded"
    /\ (pc = "raised" => game.error # "KeyError")
    /\ (challenge_part = PART_2 /\ call.op = "determine_outcome") =>
           call.ret.name
               = DesiredOutcomeName(Split(Strip(CalledLine), split_string)[2])

C2_Witness ==
    /\ challenge_part = PART_2
    /\ call.op = "determine_outcome"
    /\ CalledLine = <<"A", " ", "Z">>
    /\ CalledRound.player_choice.name = "PAPER"
    /\ call.ret = WIN

OutcomeScore(name) ==
    CASE name = "LOSS" -> 0
      [] name = "DRAW" -> 3
      [] name = "WIN" -> 6

SelectionScore(name) ==
    CASE name = "ROCK" -> 1
      [] name = "PAPER" -> 2
      [] name = "SCISSORS" -> 3

\* the score of a round by the two tables of the claim
ScoreByRule(round) ==
    OutcomeScore(OutcomeByRule(round.player_choice.name,
                               round.opponent_choice.name))
        + SelectionScore(round.player_choice.name)

ExampleScore(line) ==
    CASE line = ExampleFile[1] -> 8
      [] line = ExampleFile[2] -> 1
      [] line = ExampleFile[3] -> 6

\* C3: compute_score with the standard table is the outcome score (Loss 0,
\* Draw 3, Win 6) plus the selection score (Rock 1, Paper 2, Scissors 3) of
\* the player's move; "A Y", "B X", "C Z" in choice mode score 8, 1 and 6.
C3_RoundScore ==
    call.op = "compute_score" =>
        /\ call.ret = ScoreByRule(CalledRound)
        /\ (/\ challenge_part = PART_1
            /\ split_string = <<" ">>
            /\ \E k \in DOMAIN ExampleFile : CalledLine = ExampleFile[k])
               => call.ret = ExampleScore(CalledLine)

C3_Witness ==
    /\ call.op = "compute_score"
    /\ challenge_part = PART_1
    /\ CalledLine = <<"A", " ", "Y">>
    /\ call.ret = 8

\* C4: the score of every round lies in 1..9.
C4_RoundScoreInRange ==
    call.op = "compute_score" => call.ret \in 1..9

\* the lowest score: a loss with Rock
C4_Witness ==
    /\ call.op = "compute_score"
    /\ CalledRound.player_choice.name = "ROCK"
    /\ CalledRound.opponent_choice.name = "PAPER"
    /\ call.ret = 1

Shapes == {"ROCK", "PAPER", "SCISSORS"}

\* how many rounds of the game have these two shapes
CountRounds(opponent, player) ==
    Cardinality({i \in DOMAIN game.value :
                    /\ game.value[i].opponent_choice.name = opponent
                    /\ game.value[i].player_choice.name = player})

RECURSIVE TotalOver(_)
TotalOver(kinds) ==
    IF kinds = {} THEN 0
    ELSE LET kind == CHOOSE k \in kinds : TRUE
         IN  CountRounds(kind[1], kind[2])
                 * ScoreByRule(Round([name |-> kind[1]], [name |-> kind[2]]))
                 + TotalOver(kinds \ {kind})

\* C5: Game.compute_score is the sum of the round scores, every round
\* counted once (an empty game scores 0); the example file totals 15 in
\* choice mode and 12 in outcome mode.
C5_GameScoreIsSum ==
    call.op = "game_compute_score" =>
        /\ call.ret = TotalOver(Shapes \X Shapes)
        /\ (file_lines = ExampleFile /\ split_string = <<" ">>) =>
               call.ret = IF challenge_part = PART_1 THEN 15 ELSE 12

C5_Witness ==
    /\ call.op = "game_compute_score"
    /\ file_lines = ExampleFile
    /\ challenge_part = PART_2
    /\ call.ret = 12

\* a line as Game.from_file reads it is malformed when it does not split
\* into exactly two tokens, or a token is outside its three letters
Malformed(line, split) ==
    LET tokens == Split(Strip(line \o <<NL>>), split)
    IN  \/ Len(tokens) # 2
        \/ tokens[1] \notin {<<"A">>, <<"B">>, <<"C">>}
        \/ tokens[2] \notin {<<"X">>, <<"Y">>, <<"Z">>}

\* C6: in both modes, a malformed line (not exactly two tokens, or a token
\* outside its domain) makes Game.from_file fail, and no Game is returned.
C6_MalformedLineFails ==
    (/\ pc # "start"
     /\ \E i \in DOMAIN file_lines : Malformed(file_lines[i], split_string))
        => (pc = "raised" /\ game.error # "" /\ game.value = <<>>)

\* C11: determine_outcome is antisymmetric: when a round of two distinct
\* shapes is a Win, the round with the roles swapped is a Loss.
C11_Antisymmetric ==
    (/\ call.op = "determine_outcome_swapped"
     /\ CalledRound.opponent_choice.name # CalledRound.player_choice.name
     /\ call.ret[1] = WIN) => call.ret[2] = LOSS

\* Paper wins against Rock, and Rock loses against Paper
C11_Witness ==
    /\ call.op = "determine_outcome_swapped"
    /\ CalledRound.opponent_choice.name = "ROCK"
    /\ CalledRound.player_choice.name = "PAPER"
    /\ call.ret = <<WIN, LOSS>>

\* a line of exactly two tokens, one of A, B, C and one of X, Y, Z, with the
\* delimiter between them
WellFormedFor(line, split) ==
    /\ Len(line) = 2 + Len(split)
    /\ line[1] \in {"A", "B", "C"}
    /\ SubSeq(line, 2, Len(line) - 1) = split
    /\ line[Len(line)] \in {"X", "Y", "Z"}

OpponentShape(token) ==
    CASE token = "A" -> "ROCK"
      [] token = "B" -> "PAPER"
      [] token = "C" -> "SCISSORS"

PlayerShape(token) ==
    CASE token = "X" -> "ROCK"
      [] token = "Y" -> "PAPER"
      [] token = "Z" -> "SCISSORS"

\* C12: in choice mode a file of well-formed lines loads into a Game with
\* one Round per line, in line order, whose opponent move is the shape of
\* the first token (A Rock, B Paper, C Scissors) and whose player move is
\* the shape of the second token (X Rock, Y Paper, Z Scissors).
C12_ChoiceModeRounds ==
    (/\ challenge_part = PART_1
     /\ pc # "start"
     /\ \A i \in DOMAIN file_lines : WellFormedFor(file_lines[i], split_string))
        => /\ pc = "loaded"
           /\ Len(game.value) = Len(file_lines)
           /\ \A i \in DOMAIN file_lines :
                  /\ game.value[i].opponent_choice.name
                         = OpponentShape(file_lines[i][1])
                  /\ game.value[i].player_choice.name
                         = PlayerShape(file_lines[i][Len(file_lines[i])])

\* the example file, loaded
C12_Witness ==
    /\ challenge_part = PART_1
    /\ pc = "loaded"
    /\ call = NoCall
    /\ file_lines = ExampleFile
    /\ game.value
           = << Round(Member(OpponentChoice, "ROCK"), Member(PlayerChoice, "PAPER")),
                Round(Member(OpponentChoice, "PAPER"), Member(PlayerChoice, "ROCK")),
                Round(Member(OpponentChoice, "SCISSORS"),
                      Member(PlayerChoice, "SCISSORS")) >>

(***************************************************************************)
(* Day 1: the input texts and the client program.                          *)
(***************************************************************************)
LineDelimiters == {<<NL>>, <<"#">>}

\* the characters of the texts that are tried character by character
Alphabet == {"1", "x", "-", " ", NL, "#"}

\* the groups well-formed texts are written from
SnackLists == {<<7>>, <<12, 7>>, <<0, 100, 7>>}

\* the integers of the mappings handed to the maximum search directly
CalorieValues == {-1, 1}

\* the segments of the texts with many groups
ManySegments == {<<"1", "2">>, <<"x">>}

NonEmptySeqsUpTo(S, n) == UNION {[1..k -> S] : k \in 1..n}

RECURSIVE Join(_, _)
Join(strings, sep) ==
    IF strings = <<>> THEN <<>>
    ELSE IF Len(strings) = 1 THEN strings[1]
    ELSE strings[1] \o sep \o Join(Tail(strings), sep)

\* the text of a file that lists the groups: one integer per line, a blank
\* line between two groups
Render(groups, delimiter) ==
    Join([g \in DOMAIN groups |->
             Join([k \in DOMAIN groups[g] |-> Str(groups[g][k])], delimiter)],
         delimiter \o delimiter)

ExampleGroups ==
    << <<1000, 2000, 3000>>, <<4000>>, <<5000, 6000>>,
       <<7000, 8000, 9000>>, <<10000>> >>

NoHighest == Return(<<>>)

\* any short text
InitAnyText ==
    /\ pc = "read"
    /\ file_contents \in SeqsUpTo(Alphabet, MaxTextLen)
    /\ line_delimiter \in LineDelimiters
    /\ source_groups = <<>>
    /\ elf_to_snacks_dict = Return(<<>>)

\* a well-formed text, written from its groups, with or without a final
\* line end; the example input is one of them
InitWellFormedText ==
    /\ pc = "read"
    /\ source_groups \in
           NonEmptySeqsUpTo(SnackLists, MaxGroups) \cup {ExampleGroups}
    /\ line_delimiter \in LineDelimiters
    /\ \E ending \in {<<>>, <<NL>>} :
           file_contents = Render(source_groups, line_delimiter) \o ending
    /\ elf_to_snacks_dict = Return(<<>>)

\* a text of many groups, some of them not numbers
InitManyGroups ==
    /\ pc = "read"
    /\ line_delimiter = <<NL>>
    /\ \E segments \in NonEmptySeqsUpTo(ManySegments, MaxElves) :
           file_contents = Join(segments, line_delimiter \o line_delimiter)
    /\ source_groups = <<>>
    /\ elf_to_snacks_dict = Return(<<>>)

\* a mapping handed to identify_elf_with_highest_calories by its caller
InitMapping ==
    /\ pc = "given"
    /\ file_contents = <<>>
    /\ line_delimiter = <<>>
    /\ source_groups = <<>>
    /\ \E lists \in NonEmptySeqsUpTo(SeqsUpTo(CalorieValues, MaxSnacks),
                                     MaxGroups) :
           elf_to_snacks_dict =
               Return([i \in DOMAIN lists |->
                          <<create_elf_name(i, MIN_PADDING_AMOUNT),
                            List(lists[i])>>])

InitDay1 ==
    /\ \/ InitAnyText
       \/ InitWellFormedText
       \/ InitManyGroups
       \/ InitMapping
    /\ highest = NoHighest
    /\ Day2Idle

\* the client calls parse_input_file on the file
ParseInputFile ==
    /\ pc = "read"
    /\ elf_to_snacks_dict' = parse_input_file(file_contents, line_delimiter)
    /\ pc' = IF elf_to_snacks_dict'.error = "" THEN "parsed" ELSE "parse_raised"
    /\ UNCHANGED <<file_contents, line_delimiter, source_groups, highest>>
    /\ UNCHANGED day2vars

\* the client calls identify_elf_with_highest_calories on the mapping
IdentifyElfWithHighestCalories ==
    /\ pc \in {"parsed", "given"}
    /\ highest' = identify_elf_with_highest_calories(elf_to_snacks_dict.value)
    /\ pc' = IF highest'.error = "" THEN "found" ELSE "identify_raised"
    /\ UNCHANGED <<file_contents, line_delimiter, source_groups,
                   elf_to_snacks_dict>>
    /\ UNCHANGED day2vars

NextDay1 ==
    \/ ParseInputFile
    \/ IdentifyElfWithHighestCalories

SpecDay1 == InitDay1 /\ [][NextDay1]_vars

(***************************************************************************)
(* Day 1: properties.                                                      *)
(***************************************************************************)
\* parse_input_file has returned a mapping for the text
Parsed == line_delimiter # <<>> /\ pc \in {"parsed", "found", "identify_raised"}

\* parse_input_file was called and has returned or raised
ParseDone == line_delimiter # <<>> /\ pc # "read"

Segments == Split(file_contents, line_delimiter \o line_delimiter)

TokensOf(segment) == Split(Strip(segment), line_delimiter)

\* a token that reads as an integer: an optional sign and decimal digits,
\* whitespace around them allowed
ValidInteger(token) ==
    LET t == Strip(token)
        body == IF t # <<>> /\ Head(t) \in {"+", "-"} THEN Tail(t) ELSE t
    IN  body # <<>> /\ \A i \in DOMAIN body : body[i] \in DigitChars

BadGroup(segment) ==
    \E k \in DOMAIN TokensOf(segment) : ~ValidInteger(TokensOf(segment)[k])

IntegersOf(segment) ==
    [k \in DOMAIN TokensOf(segment) |-> int(TokensOf(segment)[k]).value]

\* the width parse_input_file pads the labels of n segments to
PaddingOf(n) == Max(Len(Str(n)) + 1, MIN_PADDING_AMOUNT)

Mapping == elf_to_snacks_dict.value

SumOfEntry(k) == Sum(Mapping[k][2].list)

\* C8: for a non-empty mapping of labels to integer lists the result is
\* (label, total), total the largest group sum and label the first group in
\* iteration order that has it.
C8_FirstLargestGroup ==
    pc = "found" =>
        LET mapping == Mapping
            sums == [k \in DOMAIN mapping |-> SumOfEntry(k)]
        IN  \E k \in DOMAIN mapping :
                /\ highest.value = <<mapping[k][1], sums[k]>>
                /\ \A j \in DOMAIN mapping : sums[j] <= sums[k]
                /\ \A j \in DOMAIN mapping : j < k => sums[j] < sums[k]

\* two groups tie for the largest sum and the first of them is returned
C8_Witness ==
    /\ pc = "found"
    /\ Len(Mapping) = 3
    /\ SumOfEntry(1) < SumOfEntry(2)
    /\ SumOfEntry(2) = SumOfEntry(3)
    /\ Mapping[2][2] # Mapping[3][2]
    /\ highest.value = <<Mapping[2][1], SumOfEntry(2)>>

RECURSIVE Pow10(_)
Pow10(d) == IF d = 0 THEN 1 ELSE 10 * Pow10(d - 1)

\* the number of decimal digits of a positive number
NumDigits(n) == CHOOSE d \in 1..6 : Pow10(d - 1) <= n /\ n < Pow10(d)

\* label is "elf-" and then exactly width digits that read as the number i
IsPaddedLabel(label, i, width) ==
    /\ Len(label) = 4 + width
    /\ SubSeq(label, 1, 4) = <<"e", "l", "f", "-">>
    /\ \A k \in 5..Len(label) : label[k] \in DigitChars
    /\ DigitsToNat(SubSeq(label, 5, Len(label))) = i

\* C9: of N groups the i-th is keyed by "elf-" and i zero-padded to the
\* width max(2, digits of N, plus 1); of 5 groups the 4th is "elf-04".
C9_LabelFormat ==
    Parsed =>
        LET n == Len(Segments)
            width == Max(2, NumDigits(n) + 1)
            mapping == Mapping
        IN  /\ Len(mapping) = n
            /\ \A i \in DOMAIN mapping : IsPaddedLabel(mapping[i][1], i, width)
            /\ n = 5 => mapping[4][1] = <<"e", "l", "f", "-", "0", "4">>

\* ten groups: the width is 3
C9_Witness ==
    /\ Parsed
    /\ Len(Segments) = 10
    /\ Mapping[10][1] = <<"e", "l", "f", "-", "0", "1", "0">>
    /\ Mapping[1][1] = <<"e", "l", "f", "-", "0", "0", "1">>

\* C10: a well-formed text gives its groups in text order and, in each
\* group, its integers in their order; the example input gives its five
\* groups.
C10_GroupsInOrder ==
    (Parsed /\ source_groups # <<>>) =>
        /\ Len(Mapping) = Len(source_groups)
        /\ \A i \in DOMAIN Mapping : Mapping[i][2] = List(source_groups[i])

\* the example input, with its final line end
C10_Witness ==
    /\ Parsed
    /\ source_groups = ExampleGroups
    /\ file_contents[Len(file_contents)] = NL
    /\ Len(Mapping) = 5
    /\ Mapping[4][2] = List(<<7000, 8000, 9000>>)
    /\ Mapping[5][2] = List(<<10000>>)

\* C13: whatever the text, the mapping parse_input_file returns has one key
\* per segment of the text split on the doubled delimiter; the keys differ
\* pairwise, have one length, and come in segment order, each with what its
\* own segment holds.
C13_OneKeyPerSegment ==
    Parsed =>
        LET segments == Segments
            mapping == Mapping
        IN  /\ Len(mapping) = Len(segments)
            /\ \A i, j \in DOMAIN mapping :
                   /\ i # j => mapping[i][1] # mapping[j][1]
                   /\ Len(mapping[i][1]) = Len(mapping[j][1])
            /\ \A i \in DOMAIN mapping :
                   /\ DigitsToNat(SubSeq(mapping[i][1], 5, Len(mapping[i][1]))) = i
                   /\ mapping[i][2] = IF BadGroup(segments[i])
                                      THEN None
                                      ELSE List(IntegersOf(segments[i]))

\* eleven segments, a good one first and a bad one last
C13_Witness ==
    /\ Parsed
    /\ Len(Segments) = 11
    /\ ~BadGroup(Segments[1])
    /\ BadGroup(Segments[11])
    /\ Len(Mapping) = 11
    /\ Cardinality(Keys(Mapping)) = 11
====
